---- MODULE Spec2Model ----
(***************************************************************************)
(* Model of scripts/sphere/spherical_earth_acoustic.py: the surface        *)
(* intersection solver, the ray depth-profile sampler and the control flow *)
(* of main/plot_geometry that feeds them.                                  *)
(*                                                                         *)
(* The program computes in numpy float64.  The model computes on fixed     *)
(* grids, one rounding per arithmetic operation as in floating point:      *)
(*   lengths   in steps of 1/LenUnit metre,                                *)
(*   angles    in steps of 1/AngUnit radian,                               *)
(*   cosines, sines, ratios and the chord parameter t in steps of          *)
(*             1/ValUnit.                                                  *)
(* Two facts of the float64 run are kept by the grids: np.pi lies below    *)
(* the real pi (so 90.0 * DEG_TO_RAD == np.pi / 2 lies below the real      *)
(* pi/2 and np.cos of it is a small positive number, 6.1e-17), and the     *)
(* value grid is finer than the length grid (so a quotient of two          *)
(* different lengths differs from 1).  The length grid stands for the      *)
(* spacing of float64 at the size of the Earth radius; a source depth as   *)
(* the user types it is a smaller number with a finer spacing, 1/DepthUnit *)
(* metre, and r_source = earth_radius - source_depth rounds it away.       *)
(* float("nan"), which argparse and float(input()) accept, is one more     *)
(* value: every comparison with it is false and every operation on it      *)
(* gives it back.                                                          *)
(***************************************************************************)
EXTENDS Integers, Sequences, FiniteSets

\* ------------------------------------------------------------------ grids

LenUnit == 1000       \* length grid steps per metre
AngUnit == 1000       \* angle grid steps per radian
ValUnit == 10000      \* value grid steps per 1.0
SeriesUnit == 10 * ValUnit   \* working precision of the cos/sin series
DepthUnit == 4 * LenUnit     \* steps per metre of a source depth as typed
DepthSteps == DepthUnit \div LenUnit

\* np.pi on the angle grid: the grid value below pi, as the float64 np.pi is.
PI == 3141
HalfPi == PI \div 2

\* -------------------------------------------------------------- bounds

MaxRadius == 2        \* Earth radii 1..MaxRadius metres
MaxPoints == 4        \* num_points 0..MaxPoints in direct calls of the sampler

\* --------------------------------------------------- float64 arithmetic

\* float("nan"): a tag outside every grid, never a magnitude.
NaN == -1073741824
IsNaN(x) == x = NaN

\* <, <=, >, >= of two floats: False when either is nan.
Lt(a, b) == ~IsNaN(a) /\ ~IsNaN(b) /\ a < b
Le(a, b) == ~IsNaN(a) /\ ~IsNaN(b) /\ a <= b
Gt(a, b) == ~IsNaN(a) /\ ~IsNaN(b) /\ a > b
Ge(a, b) == ~IsNaN(a) /\ ~IsNaN(b) /\ a >= b

Abs(x) == IF IsNaN(x) THEN NaN ELSE IF x < 0 THEN -x ELSE x

\* A length on the grid of the typed depths (exact: a float64 of the size of
\* the radius is also a multiple of the finer spacing).
AsDepth(a) == IF IsNaN(a) THEN NaN ELSE a * DepthSteps

\* radius - depth of a length and a typed depth, rounded to the length grid.
Sub(radius, depth) ==
    IF IsNaN(radius) \/ IsNaN(depth) THEN NaN
    ELSE (2 * (radius * DepthSteps - depth) + DepthSteps) \div (2 * DepthSteps)

\* n / d rounded to the nearest grid step (d > 0).
Round(n, d) == (2 * n + d) \div (2 * d)

\* a * b of a quantity a and a value-grid factor b.
MulVal(a, b) == IF IsNaN(a) \/ IsNaN(b) THEN NaN ELSE Round(a * b, ValUnit)

\* a * b of a length a and an angle b (an arc length).
MulAng(a, b) == IF IsNaN(a) \/ IsNaN(b) THEN NaN ELSE Round(a * b, AngUnit)

\* a / b of two lengths, on the value grid (b > 0 whenever neither is nan).
DivLen(a, b) == IF IsNaN(a) \/ IsNaN(b) THEN NaN ELSE Round(a * ValUnit, b)

RECURSIVE CosSum(_, _, _)
CosSum(a, k, term) ==
    IF term = 0 THEN 0
    ELSE (IF k % 2 = 0 THEN term ELSE -term)
         + CosSum(a, k + 1,
                  (((term * a) \div (AngUnit * (2 * k + 1))) * a)
                      \div (AngUnit * (2 * k + 2)))

RECURSIVE SinSum(_, _, _)
SinSum(a, k, term) ==
    IF term = 0 THEN 0
    ELSE (IF k % 2 = 0 THEN term ELSE -term)
         + SinSum(a, k + 1,
                  (((term * a) \div (AngUnit * (2 * k + 2))) * a)
                      \div (AngUnit * (2 * k + 3)))

CosTable == [a \in 0..PI |-> Round(CosSum(a, 0, SeriesUnit), SeriesUnit \div ValUnit)]
SinTable == [a \in 0..PI |->
                Round(SinSum(a, 0, a * (SeriesUnit \div AngUnit)), SeriesUnit \div ValUnit)]

\* np.cos, np.sin of a grid angle in [-PI, PI]; np.cos(nan) is nan.
Cos(a) == IF IsNaN(a) THEN NaN ELSE CosTable[Abs(a)]
Sin(a) == IF a < 0 THEN -SinTable[-a] ELSE SinTable[a]

\* np.arccos on [0, 1]: the smallest grid angle whose cosine does not exceed x;
\* np.arccos(1.0) = 0.0, np.arccos(0.0) = np.pi / 2.
RECURSIVE ArcCosSearch(_, _, _)
ArcCosSearch(x, lo, hi) ==
    IF lo >= hi THEN hi
    ELSE LET mid == (lo + hi) \div 2
         IN  IF Cos(mid) <= x THEN ArcCosSearch(x, lo, mid)
             ELSE ArcCosSearch(x, mid + 1, hi)

ArcCosTable == [x \in 0..ValUnit |-> ArcCosSearch(x, 0, HalfPi)]

\* Mutant: np.arcsin written for np.arccos.
ArcSin(x) == IF IsNaN(x) THEN NaN
             ELSE IF x >= 0 THEN HalfPi - ArcCosSearch(x, 0, HalfPi)
             ELSE ArcCosSearch(-x, 0, HalfPi) - HalfPi

ArcCos(x) == IF IsNaN(x) THEN NaN
             ELSE IF x >= 0 THEN ArcCosTable[x]
             ELSE PI - ArcCosTable[-x]

\* np.arctan2(y, x): in the first quadrant the largest grid angle a with
\* tan(a) <= y / x; the other quadrants by reflection.
RECURSIVE ArcTanSearch(_, _, _, _)
ArcTanSearch(y, x, lo, hi) ==
    IF lo >= hi THEN lo
    ELSE LET mid == (lo + hi + 1) \div 2
         IN  IF Sin(mid) * x <= Cos(mid) * y THEN ArcTanSearch(y, x, mid, hi)
             ELSE ArcTanSearch(y, x, lo, mid - 1)

\* Mutant: the arguments taken in the order (x, y).
ArcTan2Swapped(y, x) ==
    IF x = 0 /\ y >= 0 THEN 0
    ELSE IF x < 0 \/ y < 0 THEN PI
    ELSE ArcTanSearch(x, y, 0, HalfPi)

ArcTan2(y, x) ==
    IF y = 0 /\ x >= 0 THEN 0
    ELSE IF y < 0 THEN -(IF x >= 0 THEN ArcTanSearch(-y, x, 0, HalfPi)
                         ELSE PI - ArcTanSearch(-y, -x, 0, HalfPi))
    ELSE IF x >= 0 THEN ArcTanSearch(y, x, 0, HalfPi)
    ELSE PI - ArcTanSearch(y, -x, 0, HalfPi)

\* np.sqrt of a squared length, rounded to the nearest length step.
RECURSIVE SqrtSearch(_, _, _)
SqrtSearch(n, lo, hi) ==
    IF lo >= hi THEN lo
    ELSE LET mid == (lo + hi + 1) \div 2
         IN  IF mid * mid <= n THEN SqrtSearch(n, mid, hi)
             ELSE SqrtSearch(n, lo, mid - 1)

\* Mutant: the square root left out (ray_r = ray_x**2 + ray_y**2).
SqrtOmitted(n) == n

Sqrt(n) == LET r == SqrtSearch(n, 0, 46340)
           IN  IF n - r * r > r THEN r + 1 ELSE r

\* beam_angle * DEG_TO_RAD for a whole number of degrees; DEG_TO_RAD is
\* np.pi / 180.0, and 90.0 * DEG_TO_RAD == np.pi / 2 in float64.
ToRadians(deg) == IF IsNaN(deg) THEN NaN
                  ELSE IF deg >= 0 THEN (deg * PI) \div 180
                  ELSE -(((-deg) * PI) \div 180)

\* ------------------------------------------------------------- the core

\* The "no intersection" result: range_m = -1.0, central_angle = 0.0.
NoIntersection == <<-LenUnit, 0>>

\* Mutant: the guard written r_effective >= r_earth.
solve_guard_excludes_surface(r_src, angle_rad, r_earth) ==
    LET r_effective == MulVal(r_src, Cos(angle_rad))
    IN  IF Le(r_effective, 0) \/ Ge(r_effective, r_earth) THEN NoIntersection
        ELSE LET c_angle == ArcCos(DivLen(r_effective, r_earth))
             IN  <<MulAng(r_earth, c_angle), c_angle>>

\* Mutant: the arc length taken on the circle through the source.
solve_range_on_source_circle(r_src, angle_rad, r_earth) ==
    LET r_effective == MulVal(r_src, Cos(angle_rad))
    IN  IF Le(r_effective, 0) \/ Gt(r_effective, r_earth) THEN NoIntersection
        ELSE LET c_angle == ArcCos(DivLen(r_effective, r_earth))
             IN  <<MulAng(r_src, c_angle), c_angle>>

\* Mutant: a ratio of exactly 1 taken for out of range.
solve_rejects_ratio_one(r_src, angle_rad, r_earth) ==
    LET r_effective == MulVal(r_src, Cos(angle_rad))
    IN  IF Le(r_effective, 0) \/ Gt(r_effective, r_earth) THEN NoIntersection
        ELSE LET cos_central == DivLen(r_effective, r_earth)
             IN  IF Le(cos_central, -ValUnit) \/ Ge(cos_central, ValUnit) THEN NoIntersection
                 ELSE LET c_angle == ArcCos(cos_central)
                      IN  <<MulAng(r_earth, c_angle), c_angle>>

\* Mutant: a beam angled downward (angle_rad > 0) never reaches the surface.
solve_downward_is_invalid(r_src, angle_rad, r_earth) ==
    LET r_effective == MulVal(r_src, Cos(angle_rad))
    IN  IF Gt(angle_rad, 0) \/ Le(r_effective, 0) \/ Gt(r_effective, r_earth)
        THEN NoIntersection
        ELSE LET c_angle == ArcCos(DivLen(r_effective, r_earth))
             IN  <<MulAng(r_earth, c_angle), c_angle>>

\* An overshoot of the ratio taken for negligible: what one step of the length
\* grid makes of r_effective / r_earth at the smallest radius.
ClampTolerance == ValUnit \div LenUnit

\* Mutant: the ratio clamped into [-1, 1] before np.arccos, and only a ratio
\* outside by more than ClampTolerance reported invalid.
solve_clamps_ratio(r_src, angle_rad, r_earth) ==
    LET r_effective == MulVal(r_src, Cos(angle_rad))
    IN  IF Le(r_effective, 0) THEN NoIntersection
        ELSE LET cos_central == DivLen(r_effective, r_earth)
             IN  IF Gt(cos_central, ValUnit + ClampTolerance) THEN NoIntersection
                 ELSE LET c_angle == ArcCos(IF Gt(cos_central, ValUnit) THEN ValUnit
                                            ELSE cos_central)
                      IN  <<MulAng(r_earth, c_angle), c_angle>>

calculate_surface_intersection(r_src, angle_rad, r_earth) ==
    LET r_effective == MulVal(r_src, Cos(angle_rad))
    IN  IF Le(r_effective, 0) \/ Gt(r_effective, r_earth) THEN NoIntersection
        ELSE LET cos_central == DivLen(r_effective, r_earth)
             IN  IF Lt(cos_central, -ValUnit) \/ Gt(cos_central, ValUnit) THEN NoIntersection
                 ELSE LET c_angle == ArcCos(cos_central)
                      IN  <<MulAng(r_earth, c_angle), c_angle>>

\* Mutant: np.linspace(1, 0, num_points), the samples from the intersection back
\* to the source.
linspace_reversed(i, num_points) ==
    IF num_points = 1 THEN ValUnit ELSE Round((num_points - 1 - i) * ValUnit, num_points - 1)

\* Mutant: np.linspace(0, 1, num_points, endpoint=False).
linspace_no_endpoint(i, num_points) == Round(i * ValUnit, num_points)

\* np.linspace(0, 1, num_points)[i], i = 0 .. num_points - 1; a single point is 0.
linspace(i, num_points) == IF num_points = 1 THEN 0 ELSE Round(i * ValUnit, num_points - 1)

\* Mutant: np.argmin written for np.argmax.
argmin(s) == CHOOSE i \in 1..Len(s) :
                 /\ \A j \in 1..Len(s) : s[j] >= s[i]
                 /\ \A j \in 1..(i - 1) : s[j] > s[i]

\* Mutant: the last index of the largest element.
argmax_last(s) == CHOOSE i \in 1..Len(s) :
                      /\ \A j \in 1..Len(s) : s[j] <= s[i]
                      /\ \A j \in (i + 1)..Len(s) : s[j] < s[i]

\* np.argmax: the first index of the largest element.
argmax(s) == CHOOSE i \in 1..Len(s) :
                 /\ \A j \in 1..Len(s) : s[j] <= s[i]
                 /\ \A j \in 1..(i - 1) : s[j] < s[i]

\* A call that does not return: the exception it raises.
Raise(kind) == <<kind>>
Raised(r) == Len(r) = 1

\* np.argmax of an empty array raises ValueError (num_points = 0); nothing
\* else in the function raises.  A nan among r_source, central_angle and
\* r_earth makes source_x or intersect_x nan, hence every ray_x, ray_r, depth
\* and range nan; np.argmax then gives index 0.
profile_of(src_depth, beam_deg, r_src, rng, c_angle, r_earth, num_points) ==
    IF num_points < 1 THEN Raise("ValueError")
    ELSE IF IsNaN(r_src) \/ IsNaN(c_angle) \/ IsNaN(r_earth)
    THEN <<[i \in 1..num_points |-> NaN], [i \in 1..num_points |-> NaN], NaN, NaN>>
    ELSE
    LET source_x == MulVal(r_src, Cos(0))
        source_y == MulVal(r_src, Sin(0))
        intersect_x == MulVal(r_earth, Cos(c_angle))
        intersect_y == MulVal(r_earth, Sin(c_angle))
        ray_x == [i \in 1..num_points |->
                     source_x + MulVal(linspace(i - 1, num_points), intersect_x - source_x)]
        ray_y == [i \in 1..num_points |->
                     source_y + MulVal(linspace(i - 1, num_points), intersect_y - source_y)]
        ray_r == [i \in 1..num_points |-> Sqrt(ray_x[i] * ray_x[i] + ray_y[i] * ray_y[i])]
        depths_below_surface == [i \in 1..num_points |-> r_earth - ray_r[i]]
        horizontal_ranges == [i \in 1..num_points |->
                                 MulAng(r_earth, ArcTan2(ray_y[i], ray_x[i]))]
        max_depth_idx == argmax(depths_below_surface)
    IN  <<horizontal_ranges, depths_below_surface,
          depths_below_surface[max_depth_idx], horizontal_ranges[max_depth_idx]>>

\* Mutant: the horizontal ranges measured on the circle through the source
\* (r_source * ray_angles).
profile_range_on_source_circle(src_depth, beam_deg, r_src, rng, c_angle, r_earth, num_points) ==
    LET p == profile_of(src_depth, beam_deg, r_src, rng, c_angle, r_earth, num_points)
        on_source_circle(h) == (h * r_src) \div r_earth
    IN  IF Raised(p) \/ IsNaN(r_src) \/ IsNaN(c_angle) \/ IsNaN(r_earth) THEN p
        ELSE <<[i \in 1..num_points |-> on_source_circle(p[1][i])], p[2], p[3],
               on_source_circle(p[4])>>

\* Mutant: the source placed at r_earth - source_depth instead of r_source.
profile_from_source_depth(src_depth, beam_deg, r_src, rng, c_angle, r_earth, num_points) ==
    profile_of(src_depth, beam_deg, Sub(r_earth, src_depth), rng, c_angle, r_earth, num_points)

\* Mutant: the sampler with a precondition check on the intersection result.
profile_precondition_checked(src_depth, beam_deg, r_src, rng, c_angle, r_earth, num_points) ==
    IF Lt(rng, 0) THEN Raise("InvalidArgument")
    ELSE profile_of(src_depth, beam_deg, r_src, rng, c_angle, r_earth, num_points)

calculate_ray_depth_profile(src_depth, beam_deg, r_src, rng, c_angle, r_earth, num_points) ==
    profile_of(src_depth, beam_deg, r_src, rng, c_angle, r_earth, num_points)

\* num_points=100, the default every call from plot_geometry uses.
DefaultNumPoints == 100

\* The part of plot_geometry that reaches the core: the profile it computes
\* from its own arguments (drawing raises nothing the model follows).
plot_geometry(src_depth, beam_deg, r_src, rng, c_angle, r_earth) ==
    calculate_ray_depth_profile(src_depth, beam_deg, r_src, rng, c_angle, r_earth,
                                DefaultNumPoints)

\* ------------------------------------------------------------ the state

VARIABLES
    pc,             \* where main stands; "core" while the core is called directly
    earth_radius,   \* args.earth_radius, a length
    source_depth,   \* source depth below the surface, a length
    beam_angle,     \* beam angle in whole degrees
    beam_angle_rad, \* beam angle on the angle grid
    r_source,       \* distance of the source from the centre
    range_m,        \* first component of the solver's result
    central_angle,  \* second component of the solver's result
    num_points,     \* num_points of the last call of the sampler, -1 before
    profile,        \* what calculate_ray_depth_profile returned, <<>> before
    raised,         \* the exception the last call of the core raised, "none" if it returned
    exit_status,    \* -1 while running, 1 after sys.exit(1), 0 after a normal end
    calls,          \* core functions main has called, in order (direct calls: the last one)
    prev            \* direct calls: <<r_source, range_m, central_angle>> of the solve call
                    \* just before the last one, if that one returned a valid result
                    \* and the last one has the same angle and Earth radius and a
                    \* deeper source; <<>> otherwise

vars == <<pc, earth_radius, source_depth, beam_angle, beam_angle_rad, r_source,
          range_m, central_angle, num_points, profile, raised, exit_status, calls, prev>>

SOLVE == "calculate_surface_intersection"
SAMPLE == "calculate_ray_depth_profile"

\* ----------------------------------------------------------- the inputs

\* Values the user can give main: radii on the length grid, depths on the finer
\* grid of the typed depths, whole degrees, and nan for any of the three.  Only
\* a depth below half the smallest radius lies between the steps of the length
\* grid: a float64 above half the radius has the spacing of the radius or twice
\* as fine, and the subtraction of line 575 is then exact.
\* A source a few decimetres from the centre has, at +-90 degrees, an r_effective
\* below the resolution of the length grid, which rounds to 0: the grid's form
\* of the underflow float64 shows for radii near 1e-310 m.
EarthRadii == {m * LenUnit : m \in -1..MaxRadius} \cup {NaN}
SourceDepths == {-DepthUnit, -1, 0, 1}
                    \cup {k * (DepthUnit \div 4) : k \in 1..(4 * MaxRadius)}
                    \cup {DepthUnit \div 4 + e : e \in 1..(DepthSteps - 1)}
                    \cup {NaN}
BeamAngles == {-91, -90, -60, 0, 60, 89, 90, 91, NaN}

\* Arguments of a direct call of the solver: r_source > 0 (on, below and above
\* the surface, one step below and one step above it, far from the resolution
\* of the grid), r_earth > 0, angles inside [-90, 90] degrees and one outside.
CoreEarthRadii == {m * LenUnit : m \in 1..MaxRadius}
CoreSourceRadii == {k * (LenUnit \div 2) : k \in 2..(2 * MaxRadius + 1)}
                       \cup {m * LenUnit + e : m \in 1..MaxRadius, e \in {-1, 1}}
CoreAngles == {-90, -60, 0, 60, 90, 120}

\* ----------------------------------------------------------------- main

Init ==
    /\ pc = "start"
    /\ earth_radius = 0 /\ source_depth = 0 /\ beam_angle = 0
    /\ beam_angle_rad = 0 /\ r_source = 0
    /\ range_m = 0 /\ central_angle = 0
    /\ num_points = -1 /\ profile = <<>> /\ raised = "none"
    /\ exit_status = -1 /\ calls = <<>> /\ prev = <<>>

\* args = parser.parse_args(); depth and angle from the command line or the prompt.
ParseArgs ==
    /\ pc = "start"
    /\ \E er \in EarthRadii, d \in SourceDepths, a \in BeamAngles :
          /\ earth_radius' = er
          /\ source_depth' = d
          /\ beam_angle' = a
    /\ pc' = "validate"
    /\ UNCHANGED <<beam_angle_rad, r_source, range_m, central_angle, num_points, profile,
                   raised, exit_status, calls, prev>>

\* "Validate inputs": the first check of main that fails, "ok" if none does.
validate_inputs(depth, angle, radius) ==
    IF Lt(depth, 0) THEN "Source depth must be positive"
    ELSE IF Ge(depth, AsDepth(radius)) THEN "Source depth exceeds Earth radius"
    ELSE IF Gt(Abs(angle), 90) THEN "Beam angle must be between -90 and +90 degrees"
    ELSE "ok"

\* print("Error: ..."); sys.exit(1)
RejectInputs ==
    /\ pc = "validate"
    /\ validate_inputs(source_depth, beam_angle, earth_radius) # "ok"
    /\ pc' = "exit"
    /\ exit_status' = 1
    /\ UNCHANGED <<earth_radius, source_depth, beam_angle, beam_angle_rad, r_source,
                   range_m, central_angle, num_points, profile, raised, calls, prev>>

\* beam_angle_rad = beam_angle * DEG_TO_RAD; r_source = earth_radius - source_depth
Convert ==
    /\ pc = "validate"
    /\ validate_inputs(source_depth, beam_angle, earth_radius) = "ok"
    /\ beam_angle_rad' = ToRadians(beam_angle)
    /\ r_source' = Sub(earth_radius, source_depth)
    /\ pc' = "solve"
    /\ UNCHANGED <<earth_radius, source_depth, beam_angle, range_m, central_angle,
                   num_points, profile, raised, exit_status, calls, prev>>

\* range_m, central_angle = calculate_surface_intersection(r_source, beam_angle_rad, earth_radius)
CalculateIntersection ==
    /\ pc = "solve"
    /\ LET r == calculate_surface_intersection(r_source, beam_angle_rad, earth_radius)
       IN  /\ range_m' = r[1]
           /\ central_angle' = r[2]
    /\ calls' = Append(calls, SOLVE)
    /\ pc' = "plot"
    /\ UNCHANGED <<earth_radius, source_depth, beam_angle, beam_angle_rad, r_source,
                   num_points, profile, raised, exit_status, prev>>

\* if range_m > 0: plot_geometry(...), which calls calculate_ray_depth_profile;
\* an exception it raises is caught and reported as a warning.
PlotWhen(guard) ==
    /\ pc = "plot"
    /\ guard
    /\ LET r == plot_geometry(source_depth, beam_angle, r_source, range_m, central_angle,
                              earth_radius)
       IN  IF Raised(r) THEN profile' = <<>> /\ raised' = r[1]
           ELSE profile' = r /\ raised' = "none"
    /\ num_points' = DefaultNumPoints
    /\ calls' = Append(calls, SAMPLE)
    /\ pc' = "done"
    /\ exit_status' = 0
    /\ UNCHANGED <<earth_radius, source_depth, beam_angle, beam_angle_rad, r_source,
                   range_m, central_angle, prev>>

\* Mutant: the guard written range_m != 0.
PlotGeometryWhenNonZero == PlotWhen(range_m # 0)

PlotGeometry == PlotWhen(Gt(range_m, 0))

\* plot_geometry raises while it sets the figure up, before it reaches the
\* profile (no display, matplotlib missing): caught by main, "Could not create plot".
PlotFails ==
    /\ pc = "plot"
    /\ Gt(range_m, 0)
    /\ pc' = "done"
    /\ exit_status' = 0
    /\ UNCHANGED <<earth_radius, source_depth, beam_angle, beam_angle_rad, r_source,
                   range_m, central_angle, num_points, profile, raised, calls, prev>>

\* range_m > 0 is False (range_m is 0, -1 or nan): main ends without plotting.
NoPlot ==
    /\ pc = "plot"
    /\ ~Gt(range_m, 0)
    /\ pc' = "done"
    /\ exit_status' = 0
    /\ UNCHANGED <<earth_radius, source_depth, beam_angle, beam_angle_rad, r_source,
                   range_m, central_angle, num_points, profile, raised, calls, prev>>

Next ==
    \/ ParseArgs
    \/ RejectInputs
    \/ Convert
    \/ CalculateIntersection
    \/ PlotGeometry
    \/ PlotFails
    \/ NoPlot

Spec == Init /\ [][Next]_vars

\* ------------------------------------------- direct calls of the core

\* The two functions called directly, in any order and any number of times,
\* as a library user or a test does.
CoreInit ==
    /\ pc = "core"
    /\ earth_radius = 0 /\ source_depth = 0 /\ beam_angle = 0
    /\ beam_angle_rad = 0 /\ r_source = 0
    /\ range_m = 0 /\ central_angle = 0
    /\ num_points = -1 /\ profile = <<>> /\ raised = "none"
    /\ exit_status = -1 /\ calls = <<>> /\ prev = <<>>

\* calculate_surface_intersection(rs, ToRadians(deg), re); the depth is one of
\* those that give rs (line 575 read backwards): the one on the length grid or,
\* for a depth between 0 and half the smallest radius, one next to it.
CoreSolve ==
    /\ pc = "core"
    /\ \E re \in CoreEarthRadii, rs \in CoreSourceRadii, deg \in CoreAngles, e \in {-1, 0, 1} :
          LET r == calculate_surface_intersection(rs, ToRadians(deg), re)
              d == AsDepth(re - rs) + e
          IN  /\ Sub(re, d) = rs
              /\ e = 0 \/ (d > 0 /\ 2 * d < DepthUnit)
              /\ earth_radius' = re
              /\ r_source' = rs
              /\ source_depth' = d
              /\ beam_angle' = deg
              /\ beam_angle_rad' = ToRadians(deg)
              /\ range_m' = r[1]
              /\ central_angle' = r[2]
              /\ prev' = IF /\ calls = <<SOLVE>> /\ earth_radius = re /\ beam_angle = deg
                            /\ rs < r_source /\ range_m # NoIntersection[1]
                         THEN <<r_source, range_m, central_angle>>
                         ELSE <<>>
    /\ calls' = <<SOLVE>>
    /\ num_points' = -1 /\ profile' = <<>> /\ raised' = "none"
    /\ UNCHANGED <<pc, exit_status>>

\* calculate_ray_depth_profile on the last result of the solver, valid or not.
CoreSample ==
    /\ pc = "core"
    /\ calls # <<>>
    /\ \E n \in 0..MaxPoints :
          LET r == calculate_ray_depth_profile(source_depth, beam_angle, r_source, range_m,
                                               central_angle, earth_radius, n)
          IN  /\ num_points' = n
              /\ IF Raised(r) THEN profile' = <<>> /\ raised' = r[1]
                 ELSE profile' = r /\ raised' = "none"
    /\ calls' = <<SAMPLE>>
    /\ prev' = <<>>
    /\ UNCHANGED <<pc, earth_radius, source_depth, beam_angle, beam_angle_rad, r_source,
                   range_m, central_angle, exit_status>>

CoreNext == CoreSolve \/ CoreSample

CoreSpec == CoreInit /\ [][CoreNext]_vars

\* ----------------------------------------------------------- the claims

\* The solver has been called and its result stands in range_m, central_angle.
Solved == calls # <<>>

\* The solver's result is the invalid one.
Invalid == range_m = NoIntersection[1]

\* The solver was called inside its contract.
InContract == Gt(r_source, 0) /\ Gt(earth_radius, 0) /\ Le(Abs(beam_angle_rad), HalfPi)

\* r_eff = r_source * cos(angle) of the last call.
r_eff == MulVal(r_source, Cos(beam_angle_rad))

\* The sampler was called on the last result of the solver and returned.
Sampled == Solved /\ calls[Len(calls)] = SAMPLE /\ raised = "none"

\* C1: for r_source > 0, r_earth > 0 and |angle| <= pi/2 the solver returns
\* (-1, 0), raising nothing, exactly when r_eff <= 0 or r_eff > r_earth.
C1_InvalidExactlyOutsideRange ==
    (Solved /\ InContract) =>
        /\ Invalid <=> (r_eff <= 0 \/ r_eff > earth_radius)
        /\ Invalid => central_angle = 0
        /\ calls = <<SOLVE>> => raised = "none"

C1_Witness ==
    /\ calls = <<SOLVE>> /\ InContract
    /\ r_eff > earth_radius /\ Invalid /\ central_angle = 0

\* C2: a valid result has range_m >= 0, central_angle in [0, pi/2] and
\* range_m = r_earth * central_angle.
C2_ValidResultBounds ==
    (Solved /\ InContract /\ ~Invalid) =>
        /\ range_m >= 0
        /\ central_angle >= 0 /\ central_angle <= HalfPi
        /\ range_m = MulAng(earth_radius, central_angle)

C2_Witness ==
    /\ calls = <<SOLVE>> /\ InContract /\ ~Invalid
    /\ r_source # earth_radius /\ central_angle > 0 /\ central_angle < HalfPi

\* C3: a valid result has range_m = 0 exactly when r_eff = r_earth; a source
\* at the surface (r_source = r_earth) with angle 0 gives range 0, angle 0.
C3_ZeroRangeIffTangentAtSurface ==
    (Solved /\ InContract) =>
        /\ ~Invalid => (range_m = 0 <=> r_eff = earth_radius)
        /\ (r_source = earth_radius /\ beam_angle_rad = 0) =>
               (range_m = 0 /\ central_angle = 0)

C3_Witness ==
    /\ calls = <<SOLVE>> /\ InContract /\ ~Invalid
    /\ r_source = earth_radius /\ beam_angle_rad = 0 /\ range_m = 0

\* C4: at a beam angle of exactly +90 degrees r_eff is 0 and the solver
\* returns the invalid result, for every depth in [0, r_earth) and r_earth > 0.
C4_StraightDownIsInvalid ==
    (Solved /\ beam_angle = 90 /\ Ge(source_depth, 0)
        /\ Lt(source_depth, AsDepth(earth_radius))
        /\ Gt(earth_radius, 0)) =>
        (r_eff = 0 /\ Invalid)

\* C5 as stated: called with the invalid result (and num_points >= 2), the
\* sampler fails with an InvalidArgument error and returns no profile.
C5_SamplerRejectsInvalid ==
    (calls = <<SAMPLE>> /\ Invalid /\ central_angle = 0 /\ num_points >= 2) =>
        (raised = "InvalidArgument" /\ profile = <<>>)

\* C5 as amended: called with the invalid result (and num_points >= 2), the
\* sampler raises nothing and returns num_points ranges and depths.
C5_SamplerAcceptsInvalid ==
    (calls = <<SAMPLE>> /\ Invalid /\ central_angle = 0 /\ num_points >= 2) =>
        /\ raised = "none"
        /\ Len(profile) = 4
        /\ Len(profile[1]) = num_points /\ Len(profile[2]) = num_points

C5_Witness ==
    /\ calls = <<SAMPLE>> /\ Invalid /\ central_angle = 0 /\ num_points >= 2
    /\ raised = "none" /\ Len(profile[2]) = num_points

\* C6: main calls the sampler only after the solver returned a valid result
\* for the same inputs; after the invalid result it never calls it.
C6_SamplerOnlyAfterValidSolve ==
    /\ (\E i \in 1..Len(calls) : calls[i] = SAMPLE) =>
           /\ calls = <<SOLVE, SAMPLE>>
           /\ <<range_m, central_angle>> =
                  calculate_surface_intersection(r_source, beam_angle_rad, earth_radius)
           /\ ~Invalid
    /\ (Solved /\ Invalid) => calls = <<SOLVE>>

C6_Witness ==
    /\ pc = "done" /\ Invalid /\ calls = <<SOLVE>>

\* C7: inputs with depth < 0, depth >= Earth radius, |angle| > 90 or Earth
\* radius <= 0 end main with exit status 1 before the solver is called; every
\* call of the solver has r_earth > 0, 0 < r_source <= r_earth, |angle| <= pi/2.
BadInputs ==
    \/ Lt(source_depth, 0)
    \/ Ge(source_depth, AsDepth(earth_radius))
    \/ Gt(Abs(beam_angle), 90)
    \/ Le(earth_radius, 0)

C7_BadInputsNeverReachCore ==
    /\ (BadInputs /\ pc \notin {"start", "validate"}) =>
           (pc = "exit" /\ exit_status = 1 /\ calls = <<>>)
    /\ (BadInputs /\ pc = "validate") => ENABLED RejectInputs
    /\ Solved =>
           /\ Gt(earth_radius, 0)
           /\ Lt(0, r_source) /\ Le(r_source, earth_radius)
           /\ Le(Abs(beam_angle_rad), HalfPi)

\* Two solve calls in a row, same angle and Earth radius, both valid, the
\* second one from the deeper source (r_source = r_earth - depth).
DeeperThanBefore ==
    /\ calls = <<SOLVE>> /\ prev # <<>>
    /\ prev[2] # NoIntersection[1] /\ ~Invalid
    /\ r_source < prev[1]

\* C8 as stated: range_m strictly increases with the depth (stated here for
\* the beams that are not vertical, where r_eff is far from 0).
C8_RangeStrictlyIncreasing ==
    (DeeperThanBefore /\ Abs(beam_angle) < 90) => prev[2] < range_m

\* C8 as amended: range_m does not decrease with the depth.
C8_RangeNonDecreasing ==
    DeeperThanBefore => prev[2] <= range_m

C8_Witness ==
    /\ DeeperThanBefore /\ beam_angle = 0
    /\ r_source + 1 = prev[1] /\ prev[2] < range_m

\* C9: for a valid result and num_points >= 2 the first sample's depth is
\* source_depth and the last sample's depth is 0, within one length step.
C9_ProfileEndpoints ==
    (Sampled /\ InContract /\ ~Invalid /\ num_points >= 2) =>
        /\ Abs(AsDepth(profile[2][1]) - source_depth) <= DepthSteps
        /\ Abs(profile[2][num_points]) <= 1

C9_Witness ==
    /\ Sampled /\ InContract /\ ~Invalid /\ num_points >= 3
    /\ source_depth > 0 /\ AsDepth(profile[2][1]) = source_depth
    /\ profile[2][num_points] = 0
    /\ profile[2][2] > 0

\* C10: for a valid result and num_points >= 2 the horizontal ranges do not
\* decrease along the samples.
C10_RangesNonDecreasing ==
    (Sampled /\ InContract /\ ~Invalid /\ num_points >= 2) =>
        \A i \in 1..(num_points - 1) : profile[1][i] <= profile[1][i + 1]

C10_Witness ==
    /\ Sampled /\ InContract /\ ~Invalid /\ num_points >= 3
    /\ \A i \in 1..(num_points - 1) : profile[1][i] < profile[1][i + 1]

\* The sampler returned a profile of a chord whose endpoints lie on or inside
\* the surface circle: 0 < r_source <= r_earth, the far end at radius r_earth.
ChordInside == Sampled /\ Gt(r_source, 0) /\ Le(r_source, earth_radius)

\* C11 as stated: with both endpoints on or inside the surface circle, every
\* sample of the profile has depth_below_surface >= 0.
C11_DepthsNonNegative ==
    ChordInside => \A i \in 1..num_points : profile[2][i] >= 0

\* C11 as amended: every sample has depth_below_surface >= 0 up to the rounding
\* of r_earth - ray_r (one step of the length grid).
C11_DepthsNonNegativeRounded ==
    ChordInside => \A i \in 1..num_points : profile[2][i] >= -1

C11_Witness ==
    /\ ChordInside /\ ~Invalid /\ num_points >= 3 /\ r_source < earth_radius
    /\ \A i \in 1..(num_points - 1) : profile[2][i] > 0
    /\ profile[2][num_points] = -1

\* C12: max_depth is the largest depth of the samples, max_depth_range the
\* range of the sample at the same index, and among several samples of the
\* largest depth that index is the lowest.
C12_MaxDepthAtFirstMaximum ==
    (Sampled /\ num_points >= 1) =>
        \E k \in 1..num_points :
            /\ \A j \in 1..num_points : profile[2][j] <= profile[2][k]
            /\ \A j \in 1..(k - 1) : profile[2][j] < profile[2][k]
            /\ profile[3] = profile[2][k]
            /\ profile[4] = profile[1][k]

C12_Witness ==
    /\ Sampled /\ InContract /\ ~Invalid /\ num_points >= 3
    /\ \E k \in 2..(num_points - 1) :
           /\ profile[2][k] = profile[3] /\ profile[2][k + 1] = profile[3]
           /\ profile[2][k - 1] < profile[3]
           /\ profile[4] = profile[1][k] /\ profile[1][k] < profile[1][k + 1]

\* A valid query: the solver was called inside its contract for a source at
\* depth source_depth >= 0 below the surface, returned a valid result, and the
\* sampler was called on it with num_points >= 2 and returned.
ValidQuery ==
    /\ Sampled /\ InContract /\ ~Invalid /\ num_points >= 2
    /\ Ge(source_depth, 0) /\ Le(r_source, earth_radius)

\* C13 as stated: for a valid query max_depth >= source_depth and max_depth >= 0.
C13_MaxDepthAtLeastSourceDepth ==
    ValidQuery => (AsDepth(profile[3]) >= source_depth /\ profile[3] >= 0)

\* C13 as amended: max_depth >= r_earth - r_source, the depth of the first
\* sample, which is source_depth up to the rounding of r_source (half a step of
\* the length grid); and max_depth >= 0.
C13_MaxDepthAtLeastFirstDepth ==
    ValidQuery =>
        /\ profile[3] >= earth_radius - r_source
        /\ 2 * Abs(AsDepth(earth_radius - r_source) - source_depth) <= DepthSteps
        /\ profile[3] >= 0

C13_Witness ==
    /\ ValidQuery /\ beam_angle = 0 /\ r_source < earth_radius
    /\ profile[3] = earth_radius - r_source
    /\ AsDepth(profile[3]) < source_depth

\* C14: for num_points >= 2 the sampler returns num_points ranges and
\* num_points depths, one per value of t = linspace(0, 1, num_points), which
\* runs from 0 to 1 in equal steps (up to one step of the value grid); the first
\* sample is the source (range 0, depth r_earth - r_source), the last one the
\* far end of the chord, on the surface.
C14_NumPointsSamplesInOrder ==
    (Sampled /\ Gt(r_source, 0) /\ num_points >= 2) =>
        /\ Len(profile[1]) = num_points /\ Len(profile[2]) = num_points
        /\ linspace(0, num_points) = 0 /\ linspace(num_points - 1, num_points) = ValUnit
        /\ \A i \in 1..(num_points - 1) :
               /\ linspace(i - 1, num_points) < linspace(i, num_points)
               /\ Abs((linspace(i, num_points) - linspace(i - 1, num_points))
                          - (linspace(1, num_points) - linspace(0, num_points))) <= 1
        /\ profile[1][1] = 0 /\ profile[2][1] = earth_radius - r_source
        /\ Abs(profile[2][num_points]) <= 1

C14_Witness ==
    /\ Sampled /\ InContract /\ ~Invalid /\ num_points = MaxPoints
    /\ Len(profile[1]) = MaxPoints /\ Len(profile[2]) = MaxPoints
    /\ r_source < earth_radius
    /\ profile[2][1] > 0 /\ profile[2][1] = earth_radius - r_source
    /\ profile[1][1] = 0 /\ profile[1][MaxPoints] > 0

\* r_eff / r_earth of the last call, unclamped.
ratio == DivLen(r_eff, earth_radius)

\* C17 as stated: a ratio above 1 by no more than a negligible tolerance is
\* clamped and gives a valid result with central angle 0.
C17_OvershootIsClamped ==
    (Solved /\ InContract /\ Gt(ratio, ValUnit) /\ Le(ratio, ValUnit + ClampTolerance)) =>
        (~Invalid /\ central_angle = 0 /\ range_m = 0)

\* C17 as amended: nothing is clamped.  A ratio above 1, by however little,
\* gives the invalid result; a valid result has a ratio in [0, 1] and the
\* central angle is the arccos of that ratio as it is.
C17_OvershootIsInvalid ==
    (Solved /\ InContract) =>
        /\ Gt(ratio, ValUnit) => (Invalid /\ central_angle = 0)
        /\ ~Invalid => /\ ratio >= 0 /\ ratio <= ValUnit
                        /\ central_angle = ArcCos(ratio)

C17_Witness ==
    /\ calls = <<SOLVE>> /\ InContract /\ beam_angle = 0
    /\ r_source = earth_radius + 1
    /\ Gt(ratio, ValUnit) /\ Le(ratio, ValUnit + ClampTolerance)
    /\ Invalid /\ central_angle = 0

Outcome(r) == IF Raised(r) THEN profile = <<>> /\ raised = r[1]
              ELSE profile = r /\ raised = "none"

\* C19: a call of the sampler with the same r_source, central_angle, r_earth and
\* num_points but another source_depth, beam_angle or range_m returns the same
\* ranges, depths, max_depth and max_depth_range.
C19_ProfileIgnoresDepthAngleRange ==
    (Solved /\ calls[Len(calls)] = SAMPLE) =>
        \A d \in {0, source_depth + DepthSteps}, a \in {0, beam_angle + 1},
           g \in {NoIntersection[1], range_m + 1} :
            Outcome(calculate_ray_depth_profile(d, a, r_source, g, central_angle,
                                                earth_radius, num_points))

C19_Witness ==
    /\ Sampled /\ InContract /\ ~Invalid /\ num_points >= 3
    /\ source_depth > 0 /\ beam_angle # 0 /\ range_m > 0 /\ profile[3] > 0
    /\ Outcome(calculate_ray_depth_profile(0, 0, r_source, NoIntersection[1], central_angle,
                                            earth_radius, num_points))

\* C20 as stated: for a valid result the first sample has horizontal range 0
\* and the last one has exactly the solver's range_m (stated here for the beams
\* that are not vertical).
C20_ProfileSpansExactRange ==
    (Sampled /\ InContract /\ ~Invalid /\ num_points >= 2 /\ Abs(beam_angle) < 90) =>
        (profile[1][1] = 0 /\ profile[1][num_points] = range_m)

\* C20 as amended: the first sample has horizontal range 0 and the last one has
\* the solver's range_m up to the rounding of cos, sin and arctan2 (r_earth
\* times two steps of the angle grid).
C20_ProfileSpansRangeRounded ==
    (Sampled /\ InContract /\ ~Invalid /\ num_points >= 2) =>
        /\ profile[1][1] = 0
        /\ Abs(profile[1][num_points] - range_m) <= MulAng(earth_radius, 2)

C20_Witness ==
    /\ Sampled /\ InContract /\ ~Invalid /\ num_points >= 3 /\ range_m > 0
    /\ profile[1][1] = 0
    /\ profile[1][num_points] # range_m
    /\ Abs(profile[1][num_points] - range_m) <= MulAng(earth_radius, 2)

====
